---- MODULE Spec2Model ----
(***************************************************************************)
(* Model of the bot ecosystem: three coordinators (CEOBot, PlannerBot,     *)
(* ExecutionBot, all BaseAgent), their pools of SubAgents, the learning    *)
(* update, and StreamlitBotEcosystem.process_task which threads one task   *)
(* through evaluate_task -> create_plan -> execute_plan.                   *)
(*                                                                         *)
(* Python dicts are functions whose DOMAIN is the set of present keys, so  *)
(* dict.get(key, default) is a test on the DOMAIN.  Numbers are tagged     *)
(* rationals (int / float / not a number) so that true division and the    *)
(* comparisons with 0.5 and 0.8 are exact.                                 *)
(***************************************************************************)
EXTENDS Integers, Sequences, FiniteSets, TLC

(***************************************************************************)
(* Bounds of the model.                                                    *)
(***************************************************************************)
\* pipeline / direct executions per behaviour
MaxRuns == 2
\* longest list handed to a direct learn_from_results call
MaxLearnLen == 2
\* records ingested by direct learn_from_results calls, over all coordinators
MaxIngested == 3
\* largest 'allocated_sub_agents' a directly dispatched task declares
MaxAllocation == 11
\* longest subtask list of a plan handed directly to ExecutionBot.perform_task
MaxPlanLen == 2

(***************************************************************************)
(* Program constants.                                                      *)
(***************************************************************************)
\* super().__init__(name, 10): every coordinator owns ten sub-agents
PoolSize == 10
\* task.get('allocated_sub_agents', 3)
DefaultAllocation == 3

Bots == {"ceo_bot", "planner_bot", "execution_bot"}

(***************************************************************************)
(* Values.                                                                 *)
(***************************************************************************)
RECURSIVE GCD(_, _)
GCD(a, b) == IF b = 0 THEN a ELSE GCD(b, a % b)

\* a Python int
PyInt(n) == [type |-> "int", n |-> n, d |-> 1]

\* a Python float with the value n/d (d > 0), in lowest terms
PyFloat(n, d) ==
    LET g == GCD(IF n < 0 THEN -n ELSE n, d)
    IN  [type |-> "float", n |-> n \div g, d |-> d \div g]

\* a value that is neither int nor float (a str)
NotANumber == [type |-> "str", n |-> 0, d |-> 1]

\* isinstance(v, (int, float))
IsNumber(v) == v.type \in {"int", "float"}

\* a < b, a == b on numbers
Less(a, b) == a.n * b.d < b.n * a.d
NumEq(a, b) == a.n * b.d = b.n * a.d

\* count / length: Python true division of two ints, a float
TrueDiv(count, length) == PyFloat(count, length)

\* the empty dict
EmptyDict == [k \in {} |-> 0]

\* Python's None
None == <<"None">>

\* key in d
HasKey(d, key) == key \in DOMAIN d

\* d[key] = value on a copy of d
SetKey(d, key, value) == (key :> value) @@ d

(***************************************************************************)
(* BaseAgent.learn_from_results                                            *)
(*                                                                         *)
(* An element of `results` is [kind, d]: kind "dict" is a dict d, kind     *)
(* "object" is a non-dict with a __dict__ attribute d, kind "other" has    *)
(* neither.                                                                *)
(***************************************************************************)
DictEntry(d) == [kind |-> "dict", d |-> d]
ObjectEntry(d) == [kind |-> "object", d |-> d]
OtherEntry == [kind |-> "other", d |-> EmptyDict]

\* a valid_results loop that keeps every entry
ValidResultsKeepsAll(results) == [i \in 1..Len(results) |-> results[i].d]

\* the loop that builds valid_results
ValidResults(results) ==
    LET kept == SelectSeq(results, LAMBDA e : e.kind \in {"dict", "object"})
    IN  [i \in 1..Len(kept) |-> kept[i].d]

\* a success chain that takes a success_rate of 0.5 as a success
LearnCountsFromHalf(result) ==
    IF HasKey(result, "success") /\ result["success"] = TRUE
    THEN TRUE
    ELSE IF HasKey(result, "status") /\ result["status"] = "completed"
    THEN TRUE
    ELSE IF /\ HasKey(result, "success_rate")
            /\ IsNumber(result["success_rate"])
            /\ ~Less(result["success_rate"], PyFloat(1, 2))
    THEN TRUE
    ELSE FALSE

\* the if / elif / elif chain that increments success_count
LearnCountsAsSuccess(result) ==
    IF HasKey(result, "success") /\ result["success"] = TRUE
    THEN TRUE
    ELSE IF HasKey(result, "status") /\ result["status"] = "completed"
    THEN TRUE
    ELSE IF /\ HasKey(result, "success_rate")
            /\ IsNumber(result["success_rate"])
            /\ Less(PyFloat(1, 2), result["success_rate"])
    THEN TRUE
    ELSE FALSE

\* a success_count that is incremented twice for each successful record
SuccessCountTwice(valid_results) ==
    2 * Cardinality({i \in 1..Len(valid_results) : LearnCountsAsSuccess(valid_results[i])})

SuccessCount(valid_results) ==
    Cardinality({i \in 1..Len(valid_results) : LearnCountsAsSuccess(valid_results[i])})

\* a non-empty branch that resets the rate when it accepted no record
LearnNonEmptyResets(learning, metrics, results) ==
    LET valid_results == ValidResults(results)
    IN  [learning_data |-> learning \o valid_results,
         performance_metrics |->
             SetKey(metrics, "recent_success_rate",
                    IF valid_results # <<>>
                    THEN TrueDiv(SuccessCount(valid_results), Len(valid_results))
                    ELSE PyInt(0))]

\* the branch of learn_from_results taken on a non-empty list
LearnNonEmpty(learning, metrics, results) ==
    LET valid_results == ValidResults(results)
        extended == learning \o valid_results
    IN  IF valid_results # <<>>
        THEN [learning_data |-> extended,
              performance_metrics |->
                  SetKey(metrics, "recent_success_rate",
                         TrueDiv(SuccessCount(valid_results), Len(valid_results)))]
        ELSE [learning_data |-> extended, performance_metrics |-> metrics]

\* a learn_from_results that does nothing on an empty list
LearnSkipsEmpty(learning, metrics, results) ==
    IF results # <<>>
    THEN LearnNonEmpty(learning, metrics, results)
    ELSE [learning_data |-> learning, performance_metrics |-> metrics]

\* a learn_from_results that rates the whole history instead of this call
LearnRatesHistory(learning, metrics, results) ==
    IF results # <<>>
    THEN LET extended == learning \o ValidResults(results)
         IN  [learning_data |-> extended,
              performance_metrics |->
                  IF extended # <<>>
                  THEN SetKey(metrics, "recent_success_rate",
                              TrueDiv(SuccessCount(extended), Len(extended)))
                  ELSE metrics]
    ELSE [learning_data |-> learning,
          performance_metrics |-> SetKey(metrics, "recent_success_rate", PyInt(0))]

\* a learn_from_results that replaces the history by this call's records
LearnReplacesHistory(learning, metrics, results) ==
    IF results # <<>>
    THEN LearnNonEmpty(<<>>, metrics, results)
    ELSE [learning_data |-> learning,
          performance_metrics |-> SetKey(metrics, "recent_success_rate", PyInt(0))]

\* the coordinator's state after learn_from_results(results)
learn_from_results(learning, metrics, results) ==
    IF results # <<>>
    THEN LearnNonEmpty(learning, metrics, results)
    ELSE [learning_data |-> learning,
          performance_metrics |-> SetKey(metrics, "recent_success_rate", PyInt(0))]

(***************************************************************************)
(* ExecutionBot._calculate_success_rate                                    *)
(***************************************************************************)
\* the isinstance(result, dict) test and the chain under it
CalcCountsAsSuccess(entry) ==
    IF entry.kind = "dict"
    THEN IF HasKey(entry.d, "success") /\ entry.d["success"] = TRUE
         THEN TRUE
         ELSE IF HasKey(entry.d, "status") /\ entry.d["status"] = "completed"
         THEN TRUE
         ELSE IF /\ HasKey(entry.d, "success_rate")
                 /\ IsNumber(entry.d["success_rate"])
                 /\ Less(PyFloat(1, 2), entry.d["success_rate"])
         THEN TRUE
         ELSE FALSE
    ELSE FALSE

\* a _calculate_success_rate that takes no outcomes as full success
CalculateEmptyAsSuccess(results) ==
    IF results = <<>>
    THEN PyFloat(1, 1)
    ELSE TrueDiv(Cardinality({i \in 1..Len(results) : CalcCountsAsSuccess(results[i])}),
                 Len(results))

calculate_success_rate(results) ==
    IF results = <<>>
    THEN PyFloat(0, 1)
    ELSE TrueDiv(Cardinality({i \in 1..Len(results) : CalcCountsAsSuccess(results[i])}),
                 Len(results))

(***************************************************************************)
(* BaseAgent._break_down_task and SubAgent.perform_task                    *)
(***************************************************************************)
\* a _break_down_task that does not read the task's allocation
BreakDownIgnoresAllocation(task) == DefaultAllocation

\* a _break_down_task that looks for the allocation inside the payload
BreakDownReadsPayload(task) ==
    LET allocated == IF HasKey(task, "allocated_sub_agents")
                     THEN task["allocated_sub_agents"]
                     ELSE IF HasKey(task, "task")
                             /\ HasKey(task["task"], "allocated_sub_agents")
                     THEN task["task"]["allocated_sub_agents"]
                     ELSE DefaultAllocation
    IN  IF allocated < PoolSize THEN allocated ELSE PoolSize

\* len([task] * num_subtasks): a list times a negative int is empty
break_down_task(task) ==
    LET allocated == IF HasKey(task, "allocated_sub_agents")
                     THEN task["allocated_sub_agents"] ELSE DefaultAllocation
        num_subtasks == IF allocated < PoolSize THEN allocated ELSE PoolSize
    IN  IF num_subtasks < 0 THEN 0 ELSE num_subtasks

\* the entry perform_task appends to the sub-agent's task_history
HistoryEntry(task) ==
    [task_type |-> IF HasKey(task, "type") THEN task["type"] ELSE "unknown",
     status |-> "completed"]

\* the dict perform_task returns; invocation numbers the uuid4 it draws when
\* the task carries no 'id'
SubAgentOutcome(bot, i, task, invocation) ==
    [sub_agent |-> <<bot, i>>,
     task_id |-> IF HasKey(task, "id") THEN task["id"] ELSE <<"uuid", bot, i, invocation>>,
     success |-> TRUE]

(***************************************************************************)
(* CEOBot: _assign_priority, _assess_complexity, _suggest_actions          *)
(***************************************************************************)
\* task.get(key, 1) for the numeric attributes
NumericField(task, key) == IF HasKey(task, key) THEN task[key] ELSE PyInt(1)

\* a + b: an int when both are ints, a float otherwise
Add(a, b) ==
    IF a.type = "int" /\ b.type = "int"
    THEN PyInt(a.n + b.n)
    ELSE PyFloat(a.n * b.d + b.n * a.d, a.d * b.d)

\* complexity + urgency + impact and the comparisons that follow raise
\* TypeError as soon as one of the three is not a number
EvaluateRaises(task) ==
    \E key \in {"complexity", "urgency", "impact"} : ~IsNumber(NumericField(task, key))

Score(task) ==
    Add(Add(NumericField(task, "complexity"), NumericField(task, "urgency")),
        NumericField(task, "impact"))

\* an _assign_priority whose thresholds are exclusive lower bounds
AssignPriorityAbove(task) ==
    LET score == Score(task)
    IN  IF Less(PyInt(8), score) THEN "critical"
        ELSE IF Less(PyInt(5), score) THEN "high"
        ELSE IF Less(PyInt(3), score) THEN "medium"
        ELSE "low"

\* the if / elif chain of _assign_priority, highest threshold first
assign_priority(task) ==
    LET score == Score(task)
    IN  IF ~Less(score, PyInt(8)) THEN "critical"
        ELSE IF ~Less(score, PyInt(5)) THEN "high"
        ELSE IF ~Less(score, PyInt(3)) THEN "medium"
        ELSE "low"

\* an _assess_complexity that reports every task as the simplest
AssessComplexityFlat(task) == PyInt(1)

\* min(10, complexity): Python's min keeps its first argument unless the
\* second is strictly smaller
assess_complexity(task) ==
    LET complexity == NumericField(task, "complexity")
    IN  IF Less(complexity, PyInt(10)) THEN complexity ELSE PyInt(10)

suggest_actions(task) ==
    LET complexity == NumericField(task, "complexity")
    IN  IF ~Less(complexity, PyInt(7))
        THEN <<"Allocate maximum sub-agents", "Enable advanced monitoring">>
        ELSE IF ~Less(complexity, PyInt(4))
        THEN <<"Allocate moderate sub-agents", "Standard monitoring">>
        ELSE <<"Minimal resource allocation">>

\* the evaluation dict evaluate_task builds before it dispatches
NewEvaluation(task) ==
    [task_id |-> IF HasKey(task, "id") THEN task["id"] ELSE None,
     priority |-> assign_priority(task),
     complexity |-> assess_complexity(task),
     recommended_actions |-> suggest_actions(task)]

(***************************************************************************)
(* PlannerBot: _allocate_resources, _breakdown_subtasks, _assess_risks     *)
(***************************************************************************)
EvaluationComplexity(evaluation) ==
    IF HasKey(evaluation, "complexity") THEN evaluation["complexity"] ELSE PyInt(1)

\* n * k keeps the type of n
Times(n, k) == IF n.type = "int" THEN PyInt(n.n * k) ELSE PyFloat(n.n * k, n.d)

\* max(a, b) and min(a, b) as Python computes them: the first argument wins ties
PyMax(a, b) == IF Less(a, b) THEN b ELSE a
PyMin(a, b) == IF Less(b, a) THEN b ELSE a

allocate_resources(evaluation) ==
    LET complexity == EvaluationComplexity(evaluation)
    IN  [sub_agents |-> PyMin(PyInt(10), PyMax(PyInt(2), Times(complexity, 2))),
         priority_level |-> IF HasKey(evaluation, "priority")
                            THEN evaluation["priority"] ELSE "medium"]

\* min(10, max(1, complexity))
NumSubtasks(evaluation) == PyMin(PyInt(10), PyMax(PyInt(1), EvaluationComplexity(evaluation)))

\* range(num_subtasks) raises TypeError when num_subtasks is a float
PlanRaises(evaluation) == NumSubtasks(evaluation).type # "int"

\* a dependency list that runs up to the subtask's own id
DependenciesThroughSelf(i) == [j \in 1..(i + 1) |-> j]

\* [j for j in range(1, i)] if i > 0 else []
SubtaskDependencies(i) == IF i > 0 THEN [j \in 1..(i - 1) |-> j] ELSE <<>>

\* the subtask dict built for loop index i (from 0)
NewSubtask(evaluation, i) ==
    [id |-> i + 1,
     required_skills |-> <<"execution">>,
     dependencies |-> SubtaskDependencies(i)]

breakdown_subtasks(evaluation) ==
    [k \in 1..NumSubtasks(evaluation).n |-> DictEntry(NewSubtask(evaluation, k - 1))]

assess_risks(evaluation) ==
    LET complexity == EvaluationComplexity(evaluation)
    IN  [high_risk |-> ~Less(complexity, PyInt(8)),
         medium_risk |-> ~Less(complexity, PyInt(5)) /\ Less(complexity, PyInt(8)),
         low_risk |-> Less(complexity, PyInt(5))]

\* a plan that sets its own priority instead of taking the evaluation's
NewPlanOwnPriority(evaluation, plan_id) ==
    [plan_id |-> plan_id,
     based_on_evaluation |-> IF HasKey(evaluation, "task_id")
                             THEN evaluation["task_id"] ELSE None,
     priority |-> "medium",
     allocated_resources |-> allocate_resources(evaluation),
     subtasks |-> breakdown_subtasks(evaluation),
     risk_assessment |-> assess_risks(evaluation)]

\* the plan dict create_plan builds before it dispatches
NewPlan(evaluation, plan_id) ==
    [plan_id |-> plan_id,
     based_on_evaluation |-> IF HasKey(evaluation, "task_id")
                             THEN evaluation["task_id"] ELSE None,
     priority |-> IF HasKey(evaluation, "priority") THEN evaluation["priority"] ELSE None,
     allocated_resources |-> allocate_resources(evaluation),
     subtasks |-> breakdown_subtasks(evaluation),
     risk_assessment |-> assess_risks(evaluation)]

(***************************************************************************)
(* ExecutionBot: execute_plan, _execute_subtask, _generate_execution_summary*)
(***************************************************************************)
\* plan.get('subtasks', [])
PlanSubtasks(plan) == IF HasKey(plan, "subtasks") THEN plan["subtasks"] ELSE <<>>

\* an execution_result that is created as completed
NewExecutionResultCompleted(plan, execution_id) ==
    [execution_id |-> execution_id,
     plan_id |-> IF HasKey(plan, "plan_id") THEN plan["plan_id"] ELSE None,
     status |-> "completed",
     subtask_results |-> <<>>]

\* the execution_result dict execute_plan starts from
NewExecutionResult(plan, execution_id) ==
    [execution_id |-> execution_id,
     plan_id |-> IF HasKey(plan, "plan_id") THEN plan["plan_id"] ELSE None,
     status |-> "in_progress",
     subtask_results |-> <<>>]

\* subtask.get(...) raises AttributeError on a subtask that is not a dict
SubtaskRaises(subtask) == subtask.kind # "dict"

\* the payload _execute_subtask hands to distribute_to_sub_agents
SubtaskPayload(subtask) ==
    [type |-> "subtask_execution",
     subtask |-> subtask.d,
     requirements |-> IF HasKey(subtask.d, "required_skills")
                      THEN subtask.d["required_skills"] ELSE <<>>]

\* the dict _execute_subtask returns
SubtaskResult(subtask, sub_agent_results) ==
    [subtask_id |-> IF HasKey(subtask.d, "id") THEN subtask.d["id"] ELSE None,
     sub_agent_results |-> sub_agent_results,
     success_rate |->
         calculate_success_rate([i \in 1..Len(sub_agent_results) |->
                                    DictEntry(sub_agent_results[i])])]

\* a summary that counts a subtask from the threshold of the success test
SubtaskSuccessfulAboveHalf(r) ==
    LET rate == IF HasKey(r, "success_rate") THEN r["success_rate"] ELSE PyInt(0)
    IN  Less(PyFloat(1, 2), rate)

\* r.get('success_rate', 0) > 0.8
SubtaskSuccessful(r) ==
    LET rate == IF HasKey(r, "success_rate") THEN r["success_rate"] ELSE PyInt(0)
    IN  Less(PyFloat(4, 5), rate)

\* timestamps, duration and efficiency_score are left out of the summary
generate_execution_summary(execution_result) ==
    LET subtask_results == IF HasKey(execution_result, "subtask_results")
                           THEN execution_result["subtask_results"] ELSE <<>>
        total_subtasks == Len(subtask_results)
        successful_subtasks ==
            Cardinality({i \in 1..total_subtasks : SubtaskSuccessful(subtask_results[i])})
    IN  [total_subtasks |-> total_subtasks,
         successful_subtasks |-> successful_subtasks,
         success_rate |-> IF total_subtasks > 0
                          THEN TrueDiv(successful_subtasks, total_subtasks)
                          ELSE PyInt(0),
         resources_utilized |->
             Cardinality({i \in 1..total_subtasks :
                             /\ HasKey(subtask_results[i], "sub_agent_results")
                             /\ subtask_results[i]["sub_agent_results"] # <<>>})]

\* an end of execute_plan that leaves the status as it was
FinishExecutionKeepsStatus(execution_result) ==
    SetKey(execution_result, "summary", generate_execution_summary(execution_result))

\* the lines of execute_plan after its loop
FinishExecution(execution_result) ==
    LET completed == SetKey(execution_result, "status", "completed")
    IN  SetKey(completed, "summary", generate_execution_summary(completed))

(***************************************************************************)
(* State.                                                                  *)
(***************************************************************************)
Runs == 1..MaxRuns
SubAgentIndexes == 0..(PoolSize - 1)

VARIABLES
    \* BaseAgent.learning_data, per coordinator
    learning_data,
    \* BaseAgent.performance_metrics, per coordinator
    performance_metrics,
    \* SubAgent.task_history, per coordinator and sub-agent index
    task_history,
    \* BaseAgent.message_queue, per coordinator
    message_queue,
    \* PlannerBot.daily_plans
    daily_plans,
    \* ExecutionBot.completed_tasks
    completed_tasks,
    \* st.session_state.tasks
    tasks,
    \* per invocation: the coroutine called, its position and its locals
    entry,
    pc,
    task_data,
    ceo_evaluation,
    plan,
    results,
    dispatch,
    outcome,
    exception,
    \* the operation that made the last step, with its arguments and the
    \* callee's state before it
    last_call,
    \* the input of the pure-function checks
    probe

vars == <<learning_data, performance_metrics, task_history, message_queue, daily_plans,
          completed_tasks, tasks, entry, pc, task_data, ceo_evaluation, plan, results,
          dispatch, outcome, exception, last_call, probe>>

bot_vars == <<learning_data, performance_metrics, task_history, message_queue,
              daily_plans, completed_tasks>>
run_vars == <<entry, pc, task_data, ceo_evaluation, plan, results, dispatch, outcome,
              exception>>

\* CEOBot(), PlannerBot(), ExecutionBot() as constructed
NewBots ==
    /\ learning_data = [b \in Bots |-> <<>>]
    /\ performance_metrics = [b \in Bots |-> EmptyDict]
    /\ task_history = [b \in Bots |-> [i \in SubAgentIndexes |-> <<>>]]
    /\ message_queue = [b \in Bots |-> <<>>]
    /\ daily_plans = <<>>
    /\ completed_tasks = <<>>

NoRuns ==
    /\ entry = [r \in Runs |-> "none"]
    /\ pc = [r \in Runs |-> "idle"]
    /\ task_data = [r \in Runs |-> EmptyDict]
    /\ ceo_evaluation = [r \in Runs |-> EmptyDict]
    /\ plan = [r \in Runs |-> EmptyDict]
    /\ results = [r \in Runs |-> EmptyDict]
    /\ dispatch = [r \in Runs |-> EmptyDict]
    /\ outcome = [r \in Runs |-> EmptyDict]
    /\ exception = [r \in Runs |-> "none"]

Init ==
    /\ NewBots
    /\ NoRuns
    /\ tasks = <<>>
    /\ last_call = [op |-> "init"]
    /\ probe = EmptyDict

(***************************************************************************)
(* asyncio.run(...) blocks the script: an invocation starts only when no   *)
(* other is in flight, and invocation slots are used in order.             *)
(***************************************************************************)
Finished(r) == pc[r] \in {"done", "raised"}

CanStart(r) ==
    /\ pc[r] = "idle"
    /\ \A q \in Runs : q < r => Finished(q)

NoneInFlight == \A r \in Runs : pc[r] = "idle" \/ Finished(r)

(***************************************************************************)
(* BaseAgent.distribute_to_sub_agents                                      *)
(***************************************************************************)
\* subtasks = self._break_down_task(task); results = []
NewDispatch(bot, task) ==
    [bot |-> bot, task |-> task, subtasks |-> break_down_task(task), i |-> 0,
     results |-> <<>>]

Dispatching(r) == pc[r] \in {"evaluate_dispatch", "plan_dispatch", "execute_dispatch",
                             "distribute_dispatch"}

\* a loop that is left as soon as one sub-agent has returned
DispatchLoopDoneAtFirst(r) == dispatch[r]["i"] >= 1

DispatchLoopDone(r) == dispatch[r]["i"] = dispatch[r]["subtasks"]

\* one iteration of the for loop: result = await self.sub_agents[i].perform_task(subtask)
SubAgentPerformTask(r) ==
    /\ Dispatching(r)
    /\ ~DispatchLoopDone(r)
    /\ LET frame == dispatch[r]
           bot == frame["bot"]
           i == frame["i"]
       IN  IF i < PoolSize
           THEN /\ task_history' =
                       [task_history EXCEPT
                           ![bot][i] = Append(@, HistoryEntry(frame["task"]))]
                /\ dispatch' =
                       [dispatch EXCEPT
                           ![r] = [frame EXCEPT
                                      !["i"] = i + 1,
                                      !["results"] =
                                          Append(@, SubAgentOutcome(bot, i, frame["task"],
                                                        Len(task_history[bot][i]) + 1))]]
           ELSE /\ dispatch' = [dispatch EXCEPT ![r] = [frame EXCEPT !["i"] = i + 1]]
                /\ UNCHANGED task_history
    /\ last_call' = [op |-> "perform_task", run |-> r]
    /\ UNCHANGED <<learning_data, performance_metrics, message_queue, daily_plans,
                   completed_tasks, tasks, entry, pc, task_data, ceo_evaluation, plan,
                   results, outcome, exception, probe>>

(***************************************************************************)
(* StreamlitBotEcosystem.process_task                                      *)
(***************************************************************************)
\* largest integer complexity among the submitted tasks, besides the one
\* above the planner's cap
MaxComplexity == 3

Absent == EmptyDict

\* the optional keys of a task, each absent or present with one of the values
ComplexityChoices ==
    {Absent} \cup {[complexity |-> PyInt(c)] : c \in 0..MaxComplexity}
             \cup {[complexity |-> PyInt(12)], [complexity |-> PyFloat(5, 2)],
                   [complexity |-> NotANumber]}
\* the task dicts handed to process_task: tasks with at most a complexity,
\* tasks of the task page (which adds 'allocated_sub_agents' and 'status':
\* 'submitted'), the automated task of run_automation_cycle, and a task
\* with a malformed urgency
TaskChoices ==
    ComplexityChoices
    \cup {[complexity |-> c, allocated_sub_agents |-> 7, status |-> "submitted"] :
             c \in {PyInt(2), NotANumber}}
    \cup {[complexity |-> PyInt(3), urgency |-> PyInt(2), impact |-> PyInt(4)],
          [complexity |-> PyInt(1), urgency |-> NotANumber],
          [complexity |-> PyInt(1), allocated_sub_agents |-> 1, status |-> "submitted"]}

\* process_task without its try / except
RaisePropagates(r, name) ==
    /\ exception' = [exception EXCEPT ![r] = name]
    /\ pc' = [pc EXCEPT ![r] = "raised"]

\* the exception a raise leaves with the caller of the coroutine
Raise(r, name) ==
    /\ exception' = [exception EXCEPT ![r] = name]
    /\ pc' = [pc EXCEPT ![r] = IF entry[r] = "process_task" THEN "except" ELSE "raised"]

\* asyncio.run(ecosystem.process_task(task_data))
ProcessTask(r, t) ==
    /\ CanStart(r)
    /\ NoneInFlight
    /\ entry' = [entry EXCEPT ![r] = "process_task"]
    /\ pc' = [pc EXCEPT ![r] = "evaluate"]
    /\ task_data' = [task_data EXCEPT ![r] = [id |-> <<"task", r>>] @@ t]
    /\ last_call' = [op |-> "process_task", run |-> r]
    /\ UNCHANGED <<bot_vars, tasks, ceo_evaluation, plan, results, dispatch, outcome,
                   exception, probe>>

\* CEOBot.evaluate_task up to its await
EvaluateTask(r) ==
    /\ pc[r] = "evaluate"
    /\ IF EvaluateRaises(task_data[r])
       THEN /\ Raise(r, "TypeError")
            /\ UNCHANGED <<ceo_evaluation, dispatch>>
       ELSE LET evaluation == NewEvaluation(task_data[r])
            IN  /\ ceo_evaluation' = [ceo_evaluation EXCEPT ![r] = evaluation]
                /\ dispatch' =
                       [dispatch EXCEPT
                           ![r] = NewDispatch("ceo_bot",
                                      [type |-> "task_evaluation",
                                       task |-> task_data[r],
                                       evaluation |-> evaluation])]
                /\ pc' = [pc EXCEPT ![r] = "evaluate_dispatch"]
                /\ UNCHANGED exception
    /\ last_call' = [op |-> "evaluate_task", run |-> r]
    /\ UNCHANGED <<bot_vars, tasks, entry, task_data, plan, results, outcome, probe>>

\* evaluation["sub_agent_insights"] = [r for r in sub_agent_results]; return
EvaluateTaskReturn(r) ==
    /\ pc[r] = "evaluate_dispatch"
    /\ DispatchLoopDone(r)
    /\ ceo_evaluation' =
           [ceo_evaluation EXCEPT
               ![r] = SetKey(@, "sub_agent_insights", dispatch[r]["results"])]
    /\ IF entry[r] = "process_task"
       THEN /\ pc' = [pc EXCEPT ![r] = "plan"]
            /\ UNCHANGED outcome
       ELSE /\ pc' = [pc EXCEPT ![r] = "done"]
            /\ outcome' = [outcome EXCEPT ![r] = ceo_evaluation'[r]]
    /\ last_call' = [op |-> "evaluate_task_return", run |-> r]
    /\ UNCHANGED <<bot_vars, tasks, entry, task_data, plan, results, dispatch,
                   exception, probe>>

\* PlannerBot.create_plan up to its await
CreatePlan(r) ==
    /\ pc[r] = "plan"
    /\ IF PlanRaises(ceo_evaluation[r])
       THEN /\ Raise(r, "TypeError")
            /\ UNCHANGED <<plan, dispatch>>
       ELSE LET new_plan == NewPlan(ceo_evaluation[r], <<"plan", r>>)
            IN  /\ plan' = [plan EXCEPT ![r] = new_plan]
                /\ dispatch' =
                       [dispatch EXCEPT
                           ![r] = NewDispatch("planner_bot",
                                      [type |-> "planning_assistance",
                                       plan |-> new_plan,
                                       evaluation |-> ceo_evaluation[r]])]
                /\ pc' = [pc EXCEPT ![r] = "plan_dispatch"]
                /\ UNCHANGED exception
    /\ last_call' = [op |-> "create_plan", run |-> r]
    /\ UNCHANGED <<bot_vars, tasks, entry, task_data, ceo_evaluation, results, outcome,
                   probe>>

\* plan["sub_agent_contributions"] = ...; self.daily_plans.append(plan); return
CreatePlanReturn(r) ==
    /\ pc[r] = "plan_dispatch"
    /\ DispatchLoopDone(r)
    /\ LET finished == SetKey(plan[r], "sub_agent_contributions", dispatch[r]["results"])
       IN  /\ plan' = [plan EXCEPT ![r] = finished]
           /\ daily_plans' = Append(daily_plans, finished)
    /\ IF entry[r] = "process_task"
       THEN /\ pc' = [pc EXCEPT ![r] = "execute"]
            /\ UNCHANGED outcome
       ELSE /\ pc' = [pc EXCEPT ![r] = "done"]
            /\ outcome' = [outcome EXCEPT ![r] = plan'[r]]
    /\ last_call' = [op |-> "create_plan_return", run |-> r]
    /\ UNCHANGED <<learning_data, performance_metrics, task_history, message_queue,
                   completed_tasks, tasks, entry, task_data, ceo_evaluation, results,
                   dispatch, exception, probe>>

\* ExecutionBot.execute_plan up to its loop
ExecutePlan(r) ==
    /\ pc[r] = "execute"
    /\ results' = [results EXCEPT ![r] = NewExecutionResult(plan[r], <<"execution", r>>)]
    /\ pc' = [pc EXCEPT ![r] = "execute_loop"]
    /\ last_call' = [op |-> "execute_plan", run |-> r]
    /\ UNCHANGED <<bot_vars, tasks, entry, task_data, ceo_evaluation, plan, dispatch,
                   outcome, exception, probe>>

\* the subtask the loop of execute_plan is at
SubtasksDone(r) == Len(results[r]["subtask_results"])
\* a loop that takes the subtasks from the end of the list
CurrentSubtaskFromEnd(r) ==
    PlanSubtasks(plan[r])[Len(PlanSubtasks(plan[r])) - SubtasksDone(r)]

CurrentSubtask(r) == PlanSubtasks(plan[r])[SubtasksDone(r) + 1]

\* _execute_subtask up to its await
ExecuteSubtask(r) ==
    /\ pc[r] = "execute_loop"
    /\ SubtasksDone(r) < Len(PlanSubtasks(plan[r]))
    /\ IF SubtaskRaises(CurrentSubtask(r))
       THEN /\ Raise(r, "AttributeError")
            /\ UNCHANGED dispatch
       ELSE /\ dispatch' =
                   [dispatch EXCEPT
                       ![r] = NewDispatch("execution_bot",
                                          SubtaskPayload(CurrentSubtask(r)))]
            /\ pc' = [pc EXCEPT ![r] = "execute_dispatch"]
            /\ UNCHANGED exception
    /\ last_call' = [op |-> "execute_subtask", run |-> r]
    /\ UNCHANGED <<bot_vars, tasks, entry, task_data, ceo_evaluation, plan, results,
                   outcome, probe>>

\* _execute_subtask returns; execution_result["subtask_results"].append(...)
ExecuteSubtaskReturn(r) ==
    /\ pc[r] = "execute_dispatch"
    /\ DispatchLoopDone(r)
    /\ results' =
           [results EXCEPT
               ![r]["subtask_results"] =
                   Append(@, SubtaskResult(CurrentSubtask(r), dispatch[r]["results"]))]
    /\ pc' = [pc EXCEPT ![r] = "execute_loop"]
    /\ last_call' = [op |-> "execute_subtask_return", run |-> r]
    /\ UNCHANGED <<bot_vars, tasks, entry, task_data, ceo_evaluation, plan, dispatch,
                   outcome, exception, probe>>

\* the lines of execute_plan after its loop; a direct caller gets the result
ExecutePlanReturn(r) ==
    /\ pc[r] = "execute_loop"
    /\ SubtasksDone(r) = Len(PlanSubtasks(plan[r]))
    /\ LET finished == FinishExecution(results[r])
       IN  /\ results' = [results EXCEPT ![r] = finished]
           /\ completed_tasks' = Append(completed_tasks, finished)
           /\ IF entry[r] = "process_task"
              THEN /\ pc' = [pc EXCEPT ![r] = "learn_ceo_bot"]
                   /\ UNCHANGED outcome
              ELSE /\ pc' = [pc EXCEPT ![r] = "done"]
                   /\ outcome' = [outcome EXCEPT ![r] = finished]
    /\ last_call' = [op |-> "execute_plan_return", run |-> r]
    /\ UNCHANGED <<learning_data, performance_metrics, task_history, message_queue,
                   daily_plans, tasks, entry, task_data, ceo_evaluation, plan, dispatch,
                   exception, probe>>

\* results_list = [results]: execute_plan returned a dict
ResultsList(r) == <<DictEntry(results[r])>>

LearnPc(bot) ==
    CASE bot = "ceo_bot" -> "learn_ceo_bot"
      [] bot = "planner_bot" -> "learn_planner_bot"
      [] bot = "execution_bot" -> "learn_execution_bot"

\* process_task without the learning calls on the planner and the executor
AfterLearnPcSkips(bot) == "record"

AfterLearnPc(bot) ==
    CASE bot = "ceo_bot" -> "learn_planner_bot"
      [] bot = "planner_bot" -> "learn_execution_bot"
      [] bot = "execution_bot" -> "record"

\* a learn_from_results that also appends to the other coordinators' histories
LearnsOnAll(bot, called, called_with) ==
    LET after == learn_from_results(learning_data[bot], performance_metrics[bot],
                                    called_with)
    IN  /\ learning_data' = [b \in Bots |-> learning_data[b] \o ValidResults(called_with)]
        /\ performance_metrics' =
               [performance_metrics EXCEPT ![bot] = after.performance_metrics]
        /\ last_call' = [op |-> "learn_from_results", bot |-> bot, by |-> called,
                         results |-> called_with,
                         before |-> [learning_data |-> learning_data[bot],
                                     performance_metrics |-> performance_metrics[bot]]]

\* the learn_from_results call `called` makes on coordinator bot
Learns(bot, called, called_with) ==
    LET after == learn_from_results(learning_data[bot], performance_metrics[bot],
                                    called_with)
    IN  /\ learning_data' = [learning_data EXCEPT ![bot] = after.learning_data]
        /\ performance_metrics' =
               [performance_metrics EXCEPT ![bot] = after.performance_metrics]
        /\ last_call' = [op |-> "learn_from_results", bot |-> bot, by |-> called,
                         results |-> called_with,
                         before |-> [learning_data |-> learning_data[bot],
                                     performance_metrics |-> performance_metrics[bot]]]

\* await st.session_state.<bot>.learn_from_results(results_list)
LearnFromRun(r, bot) ==
    /\ pc[r] = LearnPc(bot)
    /\ Learns(bot, r, ResultsList(r))
    /\ pc' = [pc EXCEPT ![r] = AfterLearnPc(bot)]
    /\ UNCHANGED <<task_history, message_queue, daily_plans, completed_tasks, tasks,
                   entry, task_data, ceo_evaluation, plan, results, dispatch, outcome,
                   exception, probe>>

\* the task_record of a completed task (completed_at left out)
CompletedRecord(r) ==
    SetKey(SetKey(SetKey(SetKey(task_data[r], "evaluation", ceo_evaluation[r]),
                         "plan", plan[r]),
                  "results", results[r]),
           "status", "completed")

\* st.session_state.tasks.append(task_record); save_task(...); return results
RecordCompleted(r) ==
    /\ pc[r] = "record"
    /\ tasks' = Append(tasks, CompletedRecord(r))
    /\ outcome' = [outcome EXCEPT ![r] = results[r]]
    /\ pc' = [pc EXCEPT ![r] = "done"]
    /\ last_call' = [op |-> "record_completed", run |-> r]
    /\ UNCHANGED <<bot_vars, entry, task_data, ceo_evaluation, plan, results, dispatch,
                   exception, probe>>

\* a failed task_record that keeps the status the task came with
FailedRecordKeepsStatus(r) == SetKey(task_data[r], "error", exception[r])

\* the task_record of a failed task
FailedRecord(r) ==
    SetKey(SetKey(task_data[r], "status", "failed"), "error", exception[r])

\* except Exception as e: ... return {"error": str(e)}
HandleException(r) ==
    /\ pc[r] = "except"
    /\ tasks' = Append(tasks, FailedRecord(r))
    /\ outcome' = [outcome EXCEPT ![r] = [error |-> exception[r]]]
    /\ pc' = [pc EXCEPT ![r] = "done"]
    /\ last_call' = [op |-> "handle_exception", run |-> r]
    /\ UNCHANGED <<bot_vars, entry, task_data, ceo_evaluation, plan, results, dispatch,
                   exception, probe>>

(***************************************************************************)
(* The dashboard's "Optimize Strategies" and the settings' "Restart Bot    *)
(* System".                                                                *)
(***************************************************************************)
\* an "Optimize Strategies" that calls the CEO alone
OptimizeCeoOnly ==
    /\ NoneInFlight
    /\ LET after == learn_from_results(learning_data["ceo_bot"],
                                       performance_metrics["ceo_bot"], <<>>)
       IN  /\ learning_data' = [learning_data EXCEPT !["ceo_bot"] = after.learning_data]
           /\ performance_metrics' =
                  [performance_metrics EXCEPT !["ceo_bot"] = after.performance_metrics]
    /\ last_call' = [op |-> "optimize_strategies",
                     before |-> [learning_data |-> learning_data,
                                 performance_metrics |-> performance_metrics]]
    /\ UNCHANGED <<task_history, message_queue, daily_plans, completed_tasks, tasks,
                   run_vars, probe>>

\* asyncio.run(<bot>.learn_from_results([])) on the three coordinators
OptimizeStrategies ==
    /\ NoneInFlight
    /\ LET after == [b \in Bots |->
                        learn_from_results(learning_data[b], performance_metrics[b], <<>>)]
       IN  /\ learning_data' = [b \in Bots |-> after[b].learning_data]
           /\ performance_metrics' = [b \in Bots |-> after[b].performance_metrics]
    /\ last_call' = [op |-> "optimize_strategies",
                     before |-> [learning_data |-> learning_data,
                                 performance_metrics |-> performance_metrics]]
    /\ UNCHANGED <<task_history, message_queue, daily_plans, completed_tasks, tasks,
                   run_vars, probe>>

\* st.session_state.ceo_bot = CEOBot() and the same for the other two
RestartBotSystem ==
    /\ NoneInFlight
    /\ \E r \in Runs : Finished(r)
    /\ learning_data' = [b \in Bots |-> <<>>]
    /\ performance_metrics' = [b \in Bots |-> EmptyDict]
    /\ task_history' = [b \in Bots |-> [i \in SubAgentIndexes |-> <<>>]]
    /\ message_queue' = [b \in Bots |-> <<>>]
    /\ daily_plans' = <<>>
    /\ completed_tasks' = <<>>
    /\ last_call' = [op |-> "restart_bot_system"]
    /\ UNCHANGED <<tasks, run_vars, probe>>

Next ==
    \/ \E r \in Runs, t \in TaskChoices : ProcessTask(r, t)
    \/ \E r \in Runs : EvaluateTask(r)
    \/ \E r \in Runs : SubAgentPerformTask(r)
    \/ \E r \in Runs : EvaluateTaskReturn(r)
    \/ \E r \in Runs : CreatePlan(r)
    \/ \E r \in Runs : CreatePlanReturn(r)
    \/ \E r \in Runs : ExecutePlan(r)
    \/ \E r \in Runs : ExecuteSubtask(r)
    \/ \E r \in Runs : ExecuteSubtaskReturn(r)
    \/ \E r \in Runs : ExecutePlanReturn(r)
    \/ \E r \in Runs, b \in Bots : LearnFromRun(r, b)
    \/ \E r \in Runs : RecordCompleted(r)
    \/ \E r \in Runs : HandleException(r)
    \/ OptimizeStrategies
    \/ RestartBotSystem

Spec == Init /\ [][Next]_vars

\* the steps of invocation r; asyncio.run drives the coroutine it is given
\* until it is done, and asyncio.sleep(0.1) always returns
RunStep(r) ==
    \/ EvaluateTask(r)
    \/ SubAgentPerformTask(r)
    \/ EvaluateTaskReturn(r)
    \/ CreatePlan(r)
    \/ CreatePlanReturn(r)
    \/ ExecutePlan(r)
    \/ ExecuteSubtask(r)
    \/ ExecuteSubtaskReturn(r)
    \/ ExecutePlanReturn(r)
    \/ \E b \in Bots : LearnFromRun(r, b)
    \/ RecordCompleted(r)
    \/ HandleException(r)

SpecFair == Spec /\ \A r \in Runs : WF_vars(RunStep(r))

(***************************************************************************)
(* Direct calls of the coordinators' entry points.                         *)
(***************************************************************************)
\* a subtask of a plan that did not come from the planner: a dict with or
\* without an id, or something that is not a dict
SubtaskChoices(k) ==
    {DictEntry([id |-> k, required_skills |-> <<"execution">>]),
     DictEntry(EmptyDict),
     OtherEntry}

RECURSIVE SubtaskLists(_)
SubtaskLists(n) ==
    IF n = 0
    THEN {<<>>}
    ELSE LET shorter == SubtaskLists(n - 1)
         IN  shorter \cup {Append(l, s) : l \in {x \in shorter : Len(x) = n - 1},
                                          s \in SubtaskChoices(n)}

PlanChoices(r) ==
    {EmptyDict} \cup {[plan_id |-> <<"plan", r>>, subtasks |-> l] :
                         l \in SubtaskLists(MaxPlanLen)}

\* ExecutionBot.perform_task(task): return await self.execute_plan(task)
PerformTaskExecution(r, p) ==
    /\ CanStart(r)
    /\ NoneInFlight
    /\ entry' = [entry EXCEPT ![r] = "execute_plan"]
    /\ plan' = [plan EXCEPT ![r] = p]
    /\ pc' = [pc EXCEPT ![r] = "execute"]
    /\ last_call' = [op |-> "perform_task_execution", run |-> r]
    /\ UNCHANGED <<bot_vars, tasks, task_data, ceo_evaluation, results, dispatch, outcome,
                   exception, probe>>

\* the tasks handed directly to distribute_to_sub_agents
DispatchTaskChoices ==
    {[type |-> "direct"]}
    \cup {[type |-> "direct", allocated_sub_agents |-> a] : a \in 0..MaxAllocation}

\* <bot>.distribute_to_sub_agents(task) up to its loop
DistributeToSubAgents(r, bot, t) ==
    /\ CanStart(r)
    /\ NoneInFlight
    /\ entry' = [entry EXCEPT ![r] = "distribute_to_sub_agents"]
    /\ dispatch' = [dispatch EXCEPT ![r] = NewDispatch(bot, t)]
    /\ pc' = [pc EXCEPT ![r] = "distribute_dispatch"]
    /\ last_call' = [op |-> "distribute_to_sub_agents", run |-> r]
    /\ UNCHANGED <<bot_vars, tasks, task_data, ceo_evaluation, plan, results, outcome,
                   exception, probe>>

\* return results
DistributeReturn(r) ==
    /\ pc[r] = "distribute_dispatch"
    /\ DispatchLoopDone(r)
    /\ outcome' = [outcome EXCEPT ![r] = [returned |-> dispatch[r]["results"]]]
    /\ pc' = [pc EXCEPT ![r] = "done"]
    /\ last_call' = [op |-> "distribute_return", run |-> r]
    /\ UNCHANGED <<bot_vars, tasks, entry, task_data, ceo_evaluation, plan, results,
                   dispatch, exception, probe>>

\* the elements of the lists handed directly to learn_from_results and to
\* _calculate_success_rate
LearnEntries ==
    {DictEntry([success |-> TRUE]),
     DictEntry([success |-> FALSE]),
     ObjectEntry([status |-> "completed"]),
     OtherEntry}

RECURSIVE ListsOver(_, _)
ListsOver(S, n) ==
    IF n = 0
    THEN {<<>>}
    ELSE LET shorter == ListsOver(S, n - 1)
         IN  shorter \cup {Append(l, e) : l \in {x \in shorter : Len(x) = n - 1}, e \in S}

LearnInputs == ListsOver(LearnEntries, MaxLearnLen)

\* records held by the three learning histories together
Ingested ==
    Len(learning_data["ceo_bot"]) + Len(learning_data["planner_bot"])
        + Len(learning_data["execution_bot"])

\* asyncio.run(<bot>.learn_from_results(results))
LearnFromResults(bot, rs) ==
    /\ NoneInFlight
    /\ Ingested + Len(ValidResults(rs)) <= MaxIngested
    /\ Learns(bot, 0, rs)
    /\ UNCHANGED <<task_history, message_queue, daily_plans, completed_tasks, tasks,
                   run_vars, probe>>

\* execution_bot._calculate_success_rate(results)
CalculateSuccessRate(r, rs) ==
    /\ CanStart(r)
    /\ NoneInFlight
    /\ entry' = [entry EXCEPT ![r] = "calculate_success_rate"]
    /\ outcome' = [outcome EXCEPT ![r] = [returned |-> calculate_success_rate(rs)]]
    /\ pc' = [pc EXCEPT ![r] = "done"]
    /\ last_call' = [op |-> "calculate_success_rate", run |-> r, results |-> rs]
    /\ UNCHANGED <<bot_vars, tasks, task_data, ceo_evaluation, plan, results, dispatch,
                   exception, probe>>

(***************************************************************************)
(* Specifications of the direct calls.                                     *)
(***************************************************************************)
NextExecute ==
    \/ \E r \in Runs : \E p \in PlanChoices(r) : PerformTaskExecution(r, p)
    \/ \E r \in Runs : ExecutePlan(r)
    \/ \E r \in Runs : ExecuteSubtask(r)
    \/ \E r \in Runs : SubAgentPerformTask(r)
    \/ \E r \in Runs : ExecuteSubtaskReturn(r)
    \/ \E r \in Runs : ExecutePlanReturn(r)

SpecExecute == Init /\ [][NextExecute]_vars

NextDispatch ==
    \/ \E r \in Runs, b \in Bots, t \in DispatchTaskChoices : DistributeToSubAgents(r, b, t)
    \/ \E r \in Runs : SubAgentPerformTask(r)
    \/ \E r \in Runs : DistributeReturn(r)
    \/ \E r \in Runs, rs \in LearnInputs : CalculateSuccessRate(r, rs)

SpecDispatch == Init /\ [][NextDispatch]_vars

NextLearn ==
    \/ \E b \in Bots, rs \in LearnInputs : LearnFromResults(b, rs)
    \/ OptimizeStrategies

SpecLearn == Init /\ [][NextLearn]_vars

(***************************************************************************)
(* The success test of one outcome record, over every combination of its   *)
(* three fields: the record is drawn at the start and handed, alone, to    *)
(* learn_from_results and to _calculate_success_rate.                      *)
(***************************************************************************)
SuccessChoices == {Absent, [success |-> TRUE], [success |-> FALSE]}
StatusChoices == {Absent, [status |-> "completed"], [status |-> "in_progress"]}
SuccessRateChoices ==
    {Absent, [success_rate |-> PyInt(0)], [success_rate |-> PyFloat(1, 2)],
     [success_rate |-> PyFloat(3, 5)], [success_rate |-> PyInt(1)],
     [success_rate |-> NotANumber]}

OutcomeRecords ==
    {(s @@ t) @@ x : s \in SuccessChoices, t \in StatusChoices, x \in SuccessRateChoices}

InitProbe ==
    /\ NewBots
    /\ NoRuns
    /\ tasks = <<>>
    /\ last_call = [op |-> "init"]
    /\ probe \in OutcomeRecords

LearnFromProbe(bot) ==
    /\ learning_data[bot] = <<>>
    /\ Learns(bot, 0, <<DictEntry(probe)>>)
    /\ UNCHANGED <<task_history, message_queue, daily_plans, completed_tasks, tasks,
                   run_vars, probe>>

NextProbe ==
    \/ \E b \in Bots : LearnFromProbe(b)
    \/ \E r \in Runs : CalculateSuccessRate(r, <<DictEntry(probe)>>)

SpecProbe == InitProbe /\ [][NextProbe]_vars

(***************************************************************************)
(* CEOBot.perform_task on one task, drawn at the start over every          *)
(* combination of its three numeric attributes.                            *)
(***************************************************************************)
MaxField == 5

FieldChoices(key) ==
    {Absent} \cup {[k \in {key} |-> PyInt(n)] : n \in 0..MaxField}
        \cup {[k \in {key} |-> PyFloat(5, 2)]}

EvaluationTasks ==
    {(c @@ u) @@ i : c \in FieldChoices("complexity"), u \in FieldChoices("urgency"),
                     i \in FieldChoices("impact")}

InitEvaluate ==
    /\ NewBots
    /\ NoRuns
    /\ tasks = <<>>
    /\ last_call = [op |-> "init"]
    /\ probe \in EvaluationTasks

\* CEOBot.perform_task(task): return await self.evaluate_task(task)
PerformTaskEvaluation(r, t) ==
    /\ CanStart(r)
    /\ NoneInFlight
    /\ entry' = [entry EXCEPT ![r] = "evaluate_task"]
    /\ task_data' = [task_data EXCEPT ![r] = t]
    /\ pc' = [pc EXCEPT ![r] = "evaluate"]
    /\ last_call' = [op |-> "perform_task_evaluation", run |-> r]
    /\ UNCHANGED <<bot_vars, tasks, ceo_evaluation, plan, results, dispatch, outcome,
                   exception, probe>>

NextEvaluate ==
    \/ \E r \in Runs : PerformTaskEvaluation(r, probe)
    \/ \E r \in Runs : EvaluateTask(r)
    \/ \E r \in Runs : SubAgentPerformTask(r)
    \/ \E r \in Runs : EvaluateTaskReturn(r)

SpecEvaluate == InitEvaluate /\ [][NextEvaluate]_vars

(***************************************************************************)
(* PlannerBot.perform_task on one evaluation, drawn at the start over its  *)
(* complexity.                                                             *)
(***************************************************************************)
MaxPlanComplexity == 11

Evaluations ==
    {[priority |-> "medium"]}
        \cup {[priority |-> "medium", complexity |-> PyInt(n)] : n \in 0..MaxPlanComplexity}
        \cup {[priority |-> "medium", complexity |-> PyFloat(5, 2)]}

InitPlan ==
    /\ NewBots
    /\ NoRuns
    /\ tasks = <<>>
    /\ last_call = [op |-> "init"]
    /\ probe \in Evaluations

\* PlannerBot.perform_task(task): return await self.create_plan(task)
PerformTaskPlanning(r, evaluation) ==
    /\ CanStart(r)
    /\ NoneInFlight
    /\ entry' = [entry EXCEPT ![r] = "create_plan"]
    /\ ceo_evaluation' = [ceo_evaluation EXCEPT ![r] = evaluation]
    /\ pc' = [pc EXCEPT ![r] = "plan"]
    /\ last_call' = [op |-> "perform_task_planning", run |-> r]
    /\ UNCHANGED <<bot_vars, tasks, task_data, plan, results, dispatch, outcome,
                   exception, probe>>

NextPlan ==
    \/ \E r \in Runs : PerformTaskPlanning(r, probe)
    \/ \E r \in Runs : CreatePlan(r)
    \/ \E r \in Runs : SubAgentPerformTask(r)
    \/ \E r \in Runs : CreatePlanReturn(r)

SpecPlan == InitPlan /\ [][NextPlan]_vars

(***************************************************************************)
(* ExecutionBot._generate_execution_summary on one execution result, drawn *)
(* at the start over the success rates and the sub-agent results of its    *)
(* subtask results.                                                        *)
(***************************************************************************)
RateChoices ==
    {Absent, [success_rate |-> PyFloat(0, 1)], [success_rate |-> PyFloat(3, 5)],
     [success_rate |-> PyFloat(4, 5)], [success_rate |-> PyFloat(9, 10)],
     [success_rate |-> PyFloat(1, 1)]}

SubAgentResultChoices ==
    {Absent, [sub_agent_results |-> <<>>],
     [sub_agent_results |-> <<[success |-> TRUE]>>]}

SubtaskResultChoices ==
    {x @@ y : x \in RateChoices, y \in SubAgentResultChoices}

ExecutionResults ==
    {[status |-> "completed", subtask_results |-> l] :
        l \in ListsOver(SubtaskResultChoices, MaxPlanLen)}
        \cup {[status |-> "completed"]}

InitSummary ==
    /\ NewBots
    /\ NoRuns
    /\ tasks = <<>>
    /\ last_call = [op |-> "init"]
    /\ probe \in ExecutionResults

\* execution_bot._generate_execution_summary(execution_result)
GenerateExecutionSummary(r, execution_result) ==
    /\ CanStart(r)
    /\ NoneInFlight
    /\ entry' = [entry EXCEPT ![r] = "generate_execution_summary"]
    /\ outcome' = [outcome EXCEPT ![r] = generate_execution_summary(execution_result)]
    /\ pc' = [pc EXCEPT ![r] = "done"]
    /\ last_call' = [op |-> "generate_execution_summary", run |-> r]
    /\ UNCHANGED <<bot_vars, tasks, task_data, ceo_evaluation, plan, results, dispatch,
                   exception, probe>>

NextSummary == \E r \in Runs : GenerateExecutionSummary(r, probe)

SpecSummary == InitSummary /\ [][NextSummary]_vars

(***************************************************************************)
(* The accessors the dashboard calls between the runs of the pipeline:     *)
(* BaseAgent.get_status and the three get_performance_metrics.  Timestamps *)
(* and the literal scores are left out of the returned dicts; the reports  *)
(* of the CEO come from generate_daily_report, which no action here calls. *)
(***************************************************************************)
get_status(bot) ==
    [name |-> bot,
     status |-> "active",
     sub_agents_active |-> PoolSize,
     queue_size |-> Len(message_queue[bot])]

\* task.get('summary', {}).get('success_rate', 0), counted when numeric
SummaryRate(task) ==
    LET summary == IF HasKey(task, "summary") THEN task["summary"] ELSE EmptyDict
        rate == IF HasKey(summary, "success_rate") THEN summary["success_rate"]
                ELSE PyInt(0)
    IN  IF IsNumber(rate) THEN rate ELSE PyInt(0)

RECURSIVE TotalSuccess(_)
TotalSuccess(ts) ==
    IF ts = <<>>
    THEN PyInt(0)
    ELSE Add(TotalSuccess(SubSeq(ts, 1, Len(ts) - 1)), SummaryRate(ts[Len(ts)]))

calculate_average_success_rate(ts) ==
    IF ts = <<>>
    THEN PyFloat(0, 1)
    ELSE PyFloat(TotalSuccess(ts).n, TotalSuccess(ts).d * Len(ts))

get_performance_metrics(bot) ==
    CASE bot = "ceo_bot" -> [tasks_evaluated |-> Len(learning_data[bot])]
      [] bot = "planner_bot" -> [plans_created |-> Len(daily_plans)]
      [] bot = "execution_bot" ->
             [tasks_completed |-> Len(completed_tasks),
              success_rate |-> calculate_average_success_rate(completed_tasks)]

\* what the call before this one was and, for an accessor, what it returned
Previous ==
    IF last_call.op \in {"get_status", "get_performance_metrics"}
    THEN [op |-> last_call.op, bot |-> last_call.bot, returned |-> last_call.returned]
    ELSE [op |-> last_call.op]

\* status = st.session_state.<bot>.get_status()
GetStatus(bot) ==
    /\ NoneInFlight
    /\ last_call' = [op |-> "get_status", bot |-> bot, returned |-> get_status(bot),
                     before |-> bot_vars, previous |-> Previous]
    /\ UNCHANGED <<bot_vars, tasks, run_vars, probe>>

\* a get_performance_metrics that forgets the executions it has reported
GetPerformanceMetricsForgets(bot) ==
    /\ NoneInFlight
    /\ last_call' = [op |-> "get_performance_metrics", bot |-> bot,
                     returned |-> get_performance_metrics(bot),
                     before |-> bot_vars, previous |-> Previous]
    /\ completed_tasks' = <<>>
    /\ UNCHANGED <<learning_data, performance_metrics, task_history, message_queue,
                   daily_plans, tasks, run_vars, probe>>

\* metrics = st.session_state.<bot>.get_performance_metrics()
GetPerformanceMetrics(bot) ==
    /\ NoneInFlight
    /\ last_call' = [op |-> "get_performance_metrics", bot |-> bot,
                     returned |-> get_performance_metrics(bot),
                     before |-> bot_vars, previous |-> Previous]
    /\ UNCHANGED <<bot_vars, tasks, run_vars, probe>>

NextAccess ==
    \/ Next
    \/ \E b \in Bots : GetStatus(b)
    \/ \E b \in Bots : GetPerformanceMetrics(b)

SpecAccess == Init /\ [][NextAccess]_vars

(***************************************************************************)
(* Several process_task coroutines scheduled on one event loop.  The app   *)
(* itself never does this (asyncio.run blocks the script); process_task is *)
(* a coroutine, and a caller that gathers several of them lets them        *)
(* interleave.  A coroutine keeps the loop until it awaits the sleep of a  *)
(* sub-agent or ends; only then may another coroutine step.                *)
(***************************************************************************)
ConcurrentTaskChoices ==
    {[complexity |-> PyInt(1)], [complexity |-> PyInt(2)],
     [complexity |-> PyFloat(5, 2)], [complexity |-> NotANumber]}

\* the last step left the event loop free: nothing has run yet, a sub-agent
\* is asleep (await asyncio.sleep(0.1)), or a coroutine has ended
Yielded ==
    last_call.op \in {"init", "perform_task", "record_completed", "handle_exception"}

\* the coroutine that made the last step
Holder == IF last_call.op = "learn_from_results" THEN last_call.by ELSE last_call.run

\* the event loop starts the coroutine process_task(t)
ScheduleProcessTask(r, t) ==
    /\ Yielded
    /\ pc[r] = "idle"
    /\ \A q \in Runs : q < r => pc[q] # "idle"
    /\ entry' = [entry EXCEPT ![r] = "process_task"]
    /\ pc' = [pc EXCEPT ![r] = "evaluate"]
    /\ task_data' = [task_data EXCEPT ![r] = [id |-> <<"task", r>>] @@ t]
    /\ last_call' = [op |-> "process_task", run |-> r]
    /\ UNCHANGED <<bot_vars, tasks, ceo_evaluation, plan, results, dispatch, outcome,
                   exception, probe>>

\* the event loop resumes coroutine r, or r goes on without suspending
ConcurrentStep(r) ==
    /\ IF Yielded THEN TRUE ELSE Holder = r
    /\ RunStep(r)

NextConcurrent ==
    \/ \E r \in Runs : \E t \in ConcurrentTaskChoices : ScheduleProcessTask(r, t)
    \/ \E r \in Runs : ConcurrentStep(r)

SpecConcurrent == Init /\ [][NextConcurrent]_vars

(***************************************************************************)
(* Properties.                                                             *)
(***************************************************************************)
PipelineRun(r) == entry[r] = "process_task"

\* the records st.session_state.tasks holds for the task of run r
RecordsOf(r) == {i \in 1..Len(tasks) : tasks[i]["id"] = <<"task", r>>}

\* the last record of a coordinator's learning history is the result of run r
LearnedLast(b, r) ==
    /\ learning_data[b] # <<>>
    /\ learning_data[b][Len(learning_data[b])] = results[r]

\* C1: in one process_task the steps follow one another without overlap:
\* create_plan starts only on a finished evaluation, execute_plan only on a
\* finished plan, each coordinator learns only from the finished execution
\* result, the ceo before the planner before the executor, and the task is
\* recorded as completed and the result returned only after all three learned.
C1_StrictOrder ==
    \A r \in Runs :
        PipelineRun(r) =>
            /\ pc[r] \in {"evaluate", "evaluate_dispatch"} =>
                   plan[r] = EmptyDict /\ results[r] = EmptyDict
            /\ plan[r] # EmptyDict => HasKey(ceo_evaluation[r], "sub_agent_insights")
            /\ pc[r] \in {"plan", "plan_dispatch"} => results[r] = EmptyDict
            /\ results[r] # EmptyDict => HasKey(plan[r], "sub_agent_contributions")
            /\ (last_call.op = "learn_from_results" /\ last_call.by = r) =>
                   /\ results[r]["status"] = "completed"
                   /\ Len(results[r]["subtask_results"]) = Len(PlanSubtasks(plan[r]))
                   /\ last_call.results = <<DictEntry(results[r])>>
                   /\ LearnedLast(last_call.bot, r)
                   /\ RecordsOf(r) = {}
                   /\ outcome[r] = EmptyDict
                   /\ last_call.bot = "planner_bot" => LearnedLast("ceo_bot", r)
                   /\ last_call.bot = "execution_bot" =>
                          LearnedLast("ceo_bot", r) /\ LearnedLast("planner_bot", r)
            /\ (last_call.op = "record_completed" /\ last_call.run = r) =>
                   /\ \A b \in Bots : LearnedLast(b, r)
                   /\ outcome[r] = results[r]
                   /\ tasks[Len(tasks)]["status"] = "completed"
                   /\ tasks[Len(tasks)]["results"] = results[r]
            /\ (outcome[r] # EmptyDict /\ exception[r] = "none") =>
                   \E i \in RecordsOf(r) : tasks[i]["status"] = "completed"

\* a task with three subtasks went through the whole pipeline
C1_Witness ==
    \E r \in Runs :
        /\ PipelineRun(r)
        /\ last_call.op = "record_completed"
        /\ last_call.run = r
        /\ Len(results[r]["subtask_results"]) = 3
        /\ outcome[r] = results[r]

\* C2: a fault raised in evaluate_task, create_plan or execute_plan never
\* leaves process_task: the task is recorded as failed with the error text,
\* {"error": ...} is returned, and the task is never recorded as completed.
C2_FaultIsRecorded ==
    \A r \in Runs :
        PipelineRun(r) =>
            /\ pc[r] # "raised"
            /\ exception[r] # "none" =>
                   /\ \A i \in RecordsOf(r) :
                          /\ tasks[i]["status"] = "failed"
                          /\ tasks[i]["error"] = exception[r]
                   /\ pc[r] \in {"except", "done"}
                   /\ pc[r] = "done" =>
                          /\ RecordsOf(r) # {}
                          /\ outcome[r] = [error |-> exception[r]]

\* create_plan raised on a finished evaluation and the task was recorded
C2_Witness ==
    \E r \in Runs :
        /\ PipelineRun(r)
        /\ pc[r] = "done"
        /\ exception[r] = "TypeError"
        /\ HasKey(ceo_evaluation[r], "sub_agent_insights")
        /\ \E i \in RecordsOf(r) : tasks[i]["status"] = "failed"

TerminalRecord(i) ==
    /\ HasKey(tasks[i], "status")
    /\ tasks[i]["status"] \in {"completed", "failed"}

RunEnded(r) ==
    /\ pc[r] = "done"
    /\ Cardinality(RecordsOf(r)) = 1
    /\ \A i \in RecordsOf(r) : TerminalRecord(i)

\* C3: every process_task ends, and when it has ended st.session_state.tasks
\* holds exactly one record of its task, with status completed or failed;
\* before that it holds none, and never one with another status.
C3_EndsWithOneTerminalRecord ==
    /\ \A r \in Runs : (PipelineRun(r) ~> RunEnded(r))
    /\ [](\A r \in Runs :
              PipelineRun(r) =>
                  /\ pc[r] = "done" => RunEnded(r)
                  /\ pc[r] # "done" => RecordsOf(r) = {}
                  /\ pc[r] # "raised")

\* a task that came with status 'submitted' failed, and another completed
C3_Witness ==
    \E r \in Runs, q \in Runs :
        /\ PipelineRun(r) /\ PipelineRun(q)
        /\ RunEnded(r) /\ RunEnded(q)
        /\ HasKey(task_data[r], "status") /\ task_data[r]["status"] = "submitted"
        /\ \A i \in RecordsOf(r) : tasks[i]["status"] = "failed"
        /\ \A i \in RecordsOf(q) : tasks[i]["status"] = "completed"

DirectExecution(r) == entry[r] = "execute_plan"

ExecutionStarted(r) == results[r] # EmptyDict

C5_State ==
    /\ \A r \in Runs :
           ExecutionStarted(r) =>
               /\ results[r]["status"] \in {"in_progress", "completed"}
               /\ results[r]["status"] = "completed" =>
                      /\ Len(results[r]["subtask_results"]) = Len(PlanSubtasks(plan[r]))
                      /\ HasKey(results[r], "summary")
    /\ \A i \in 1..Len(completed_tasks) : completed_tasks[i]["status"] = "completed"

C5_Step ==
    /\ \A r \in Runs :
           /\ (~ExecutionStarted(r) /\ ExecutionStarted(r)') =>
                  results'[r]["status"] = "in_progress"
           /\ (ExecutionStarted(r) /\ results[r]["status"] = "completed") =>
                  results'[r] = results[r]
    /\ completed_tasks' # completed_tasks =>
           \E r \in Runs :
               /\ results[r]["status"] = "in_progress"
               /\ results'[r]["status"] = "completed"
               /\ completed_tasks' = Append(completed_tasks, results'[r])

\* C5: an execution result is created in_progress, becomes completed once,
\* only when every subtask of the plan has its result, and does not change
\* afterwards; completed_tasks only ever receives results that just became
\* completed.
C5_StatusLifecycle == [][C5_State /\ C5_State' /\ C5_Step]_vars

\* an execution of a plan with two subtasks completed and was appended
C5_Witness ==
    \E r \in Runs :
        /\ DirectExecution(r)
        /\ ExecutionStarted(r)
        /\ results[r]["status"] = "completed"
        /\ Len(results[r]["subtask_results"]) = 2
        /\ completed_tasks # <<>>
        /\ completed_tasks[Len(completed_tasks)] = results[r]

DirectDispatch(r) == entry[r] = "distribute_to_sub_agents"

\* the allocation a task declares, 3 when it declares none
Allocation(task) ==
    IF HasKey(task, "allocated_sub_agents") THEN task["allocated_sub_agents"] ELSE 3

\* the count a caller requests: distribute_to_sub_agents takes the task
\* alone, so the request is the allocation the task carries
RequestedCount(task) == Allocation(task)

Min3(a, b, c) ==
    LET ab == IF a < b THEN a ELSE b
    IN  IF ab < c THEN ab ELSE c

\* the calls that reached sub-agent i of coordinator b
Reached(b, i) ==
    {r \in Runs : /\ dispatch[r] # EmptyDict
                  /\ dispatch[r]["bot"] = b
                  /\ i < dispatch[r]["i"]}

\* C6: distribute_to_sub_agents returns min(pool size, requested count,
\* declared allocation) outcomes, the allocation being 3 when the task
\* declares none, one from each of the first sub-agents; units beyond the
\* pool get no outcome, reach no sub-agent and are not queued.
C6_DispatchWidth ==
    /\ \A r \in Runs :
           (DirectDispatch(r) /\ pc[r] = "done") =>
               LET task == dispatch[r]["task"]
                   bot == dispatch[r]["bot"]
                   returned == outcome[r]["returned"]
                   width == Min3(PoolSize, RequestedCount(task), Allocation(task))
               IN  /\ Len(returned) = width
                   /\ \A j \in 1..width : returned[j]["sub_agent"] = <<bot, j - 1>>
                   /\ message_queue[bot] = <<>>
    /\ \A b \in Bots, i \in SubAgentIndexes :
           Len(task_history[b][i]) = Cardinality(Reached(b, i))

\* a task declaring 11 sub-agents got the ten outcomes of the pool
C6_Witness ==
    \E r \in Runs :
        /\ DirectDispatch(r)
        /\ pc[r] = "done"
        /\ Allocation(dispatch[r]["task"]) = PoolSize + 1
        /\ Len(outcome[r]["returned"]) = PoolSize

\* the success test of section 4.2: any of the three signals
ThreeWayOr(d) ==
    \/ HasKey(d, "success") /\ d["success"] = TRUE
    \/ HasKey(d, "status") /\ d["status"] = "completed"
    \/ /\ HasKey(d, "success_rate")
       /\ IsNumber(d["success_rate"])
       /\ 2 * d["success_rate"].n > d["success_rate"].d

NoneSuccessful(rs) ==
    \A i \in 1..Len(rs) : ~(rs[i].kind = "dict" /\ ThreeWayOr(rs[i].d))

ZeroWidthDispatch(r) ==
    /\ DirectDispatch(r)
    /\ pc[r] = "done"
    /\ Allocation(dispatch[r]["task"]) = 0

UnsuccessfulCalculation ==
    /\ last_call.op = "calculate_success_rate"
    /\ NoneSuccessful(last_call.results)

\* C7: a dispatch of width 0 returns the empty list, and the success rate of
\* an empty list, or of outcomes none of which is successful, is the float
\* 0.0; neither raises.
C7_ZeroCases ==
    /\ \A r \in Runs :
           DirectDispatch(r) =>
               /\ pc[r] # "raised"
               /\ ZeroWidthDispatch(r) => outcome[r]["returned"] = <<>>
    /\ \A r \in Runs : entry[r] = "calculate_success_rate" => pc[r] = "done"
    /\ UnsuccessfulCalculation => outcome[last_call.run]["returned"] = PyFloat(0, 1)

\* a dispatch of width 0 returned, then outcomes without a success were rated
C7_Witness ==
    /\ \E r \in Runs : ZeroWidthDispatch(r) /\ outcome[r]["returned"] = <<>>
    /\ UnsuccessfulCalculation
    /\ last_call.results # <<>>

RateOf(b) == performance_metrics[b]["recent_success_rate"]

ProbeRate == IF ThreeWayOr(probe) THEN PyFloat(1, 1) ELSE PyFloat(0, 1)

\* C8: learn_from_results and _calculate_success_rate count the same records
\* as successful: handed one record, with any combination of success, status
\* and success_rate, each yields the rate 1 exactly when the success flag is
\* true or the status is 'completed' or the success_rate is a number above
\* 0.5, and 0 otherwise.
C8_SamePredicate ==
    /\ \A b \in Bots : learning_data[b] # <<>> => RateOf(b) = ProbeRate
    /\ \A r \in Runs :
           entry[r] = "calculate_success_rate" => outcome[r]["returned"] = ProbeRate

\* a record that succeeds by its success_rate alone went through both
C8_Witness ==
    /\ probe = [success |-> FALSE, status |-> "in_progress",
                success_rate |-> PyFloat(3, 5)]
    /\ \E b \in Bots : learning_data[b] # <<>> /\ RateOf(b) = PyFloat(1, 1)
    /\ \E r \in Runs : entry[r] = "calculate_success_rate"

DirectLearn == last_call.op = "learn_from_results" /\ last_call.by = 0

IsZeroRate(metrics) ==
    /\ HasKey(metrics, "recent_success_rate")
    /\ NumEq(metrics["recent_success_rate"], PyInt(0))

\* C9: learn_from_results([]) sets recent_success_rate to 0 whatever it was
\* and whatever the history holds, and leaves the history as it was; so does
\* each of the three calls of "Optimize Strategies".
C9_EmptyResets ==
    /\ (DirectLearn /\ last_call.results = <<>>) =>
           /\ IsZeroRate(performance_metrics[last_call.bot])
           /\ learning_data[last_call.bot] = last_call.before.learning_data
    /\ last_call.op = "optimize_strategies" =>
           \A b \in Bots :
               /\ IsZeroRate(performance_metrics[b])
               /\ learning_data[b] = last_call.before.learning_data[b]

\* the empty list reset a rate of 1 over a non-empty history
C9_Witness ==
    /\ DirectLearn
    /\ last_call.results = <<>>
    /\ last_call.before.learning_data # <<>>
    /\ HasKey(last_call.before.performance_metrics, "recent_success_rate")
    /\ NumEq(last_call.before.performance_metrics["recent_success_rate"], PyInt(1))
    /\ IsZeroRate(performance_metrics[last_call.bot])

\* the records of a list that are dicts or have a __dict__, in order
RECURSIVE Accepted(_)
Accepted(rs) ==
    IF rs = <<>>
    THEN <<>>
    ELSE (IF Head(rs).kind \in {"dict", "object"} THEN <<Head(rs).d>> ELSE <<>>)
             \o Accepted(Tail(rs))

Successes(ds) == Cardinality({i \in 1..Len(ds) : ThreeWayOr(ds[i])})

\* C10: learn_from_results on a non-empty list appends the accepted records
\* to the history in input order, keeps the earlier entries, and, when it
\* accepted a record, sets recent_success_rate to the successful share of
\* the records accepted in this call.
C10_AppendAndRate ==
    (DirectLearn /\ last_call.results # <<>>) =>
        LET accepted == Accepted(last_call.results)
        IN  /\ learning_data[last_call.bot] = last_call.before.learning_data \o accepted
            /\ accepted # <<>> =>
                   RateOf(last_call.bot) = PyFloat(Successes(accepted), Len(accepted))

\* two records, one of them successful, were appended to a history whose
\* records had all failed
C10_Witness ==
    /\ DirectLearn
    /\ Len(Accepted(last_call.results)) = 2
    /\ Successes(Accepted(last_call.results)) = 1
    /\ last_call.before.learning_data # <<>>
    /\ Successes(last_call.before.learning_data) = 0
    /\ RateOf(last_call.bot) = PyFloat(1, 2)

DictLike(e) == e.kind \in {"dict", "object"}

\* C11: learn_from_results completes on every list, whatever its entries:
\* it appends one record for each dict and, coerced to its __dict__, for
\* each object that has one, and every other entry is dropped and never
\* reaches the history.
C11_MalformedDropped ==
    DirectLearn =>
        LET rs == last_call.results
            earlier == last_call.before.learning_data
            history == learning_data[last_call.bot]
            kept == {i \in 1..Len(rs) : DictLike(rs[i])}
        IN  /\ Len(history) = Len(earlier) + Cardinality(kept)
            /\ SubSeq(history, 1, Len(earlier)) = earlier
            /\ \A i \in kept :
                   \E j \in (Len(earlier) + 1)..Len(history) : history[j] = rs[i].d
            /\ (kept = {} /\ rs # <<>>) =>
                   performance_metrics[last_call.bot] = last_call.before.performance_metrics

\* a list holding an entry that is no dict and has no __dict__, followed by
\* an object, added the object's __dict__ alone to a non-empty history
C11_Witness ==
    /\ DirectLearn
    /\ last_call.results = <<OtherEntry, ObjectEntry([status |-> "completed"])>>
    /\ last_call.before.learning_data # <<>>
    /\ learning_data[last_call.bot] =
           Append(last_call.before.learning_data, [status |-> "completed"])

\* the value of a numeric attribute, 1 when the task does not carry it
FieldOrOne(task, key) == IF HasKey(task, key) THEN task[key] ELSE [n |-> 1, d |-> 1]

\* complexity + urgency + impact as a fraction
ScoreNum(task) ==
    LET c == FieldOrOne(task, "complexity")
        u == FieldOrOne(task, "urgency")
        i == FieldOrOne(task, "impact")
    IN  c.n * u.d * i.d + u.n * c.d * i.d + i.n * c.d * u.d

ScoreDen(task) ==
    FieldOrOne(task, "complexity").d * FieldOrOne(task, "urgency").d
        * FieldOrOne(task, "impact").d

AtLeast(task, k) == ScoreNum(task) >= k * ScoreDen(task)

\* the bands of section 4.3
Band(task) ==
    {p \in {"critical", "high", "medium", "low"} :
        \/ p = "critical" /\ AtLeast(task, 8)
        \/ p = "high" /\ AtLeast(task, 5) /\ ~AtLeast(task, 8)
        \/ p = "medium" /\ AtLeast(task, 3) /\ ~AtLeast(task, 5)
        \/ p = "low" /\ ~AtLeast(task, 3)}

Evaluated(r) == entry[r] = "evaluate_task" /\ ceo_evaluation[r] # EmptyDict

\* C12: evaluate_task gives every task with numeric or missing attributes
\* exactly one priority, from score = complexity + urgency + impact with
\* each missing attribute taken as 1 and without raising: critical from 8,
\* high from 5, medium from 3, low below; one band and only one holds for
\* every score, so all three missing give medium and 5, 5, 5 critical.
C12_PriorityBands ==
    /\ Cardinality(Band(probe)) = 1
    /\ \A r \in Runs :
           entry[r] = "evaluate_task" =>
               /\ pc[r] # "raised"
               /\ pc[r] # "evaluate" => Evaluated(r)
               /\ Evaluated(r) => ceo_evaluation[r]["priority"] \in Band(probe)
    /\ \A r \in Runs :
           (Evaluated(r) /\ probe = EmptyDict) => ceo_evaluation[r]["priority"] = "medium"
    /\ \A r \in Runs :
           (Evaluated(r) /\ probe = [complexity |-> PyInt(5), urgency |-> PyInt(5),
                                     impact |-> PyInt(5)]) =>
               ceo_evaluation[r]["priority"] = "critical"

\* a task carrying none of the three attributes was evaluated as medium, its
\* score being 3
C12_Witness ==
    /\ probe = EmptyDict
    /\ \E r \in Runs :
           /\ Evaluated(r)
           /\ pc[r] = "done"
           /\ outcome[r]["priority"] = "medium"

Planned(r) == entry[r] = "create_plan" /\ plan[r] # EmptyDict

\* the subtask dicts of the plan of run r, in list order
SubtasksOf(r) == [k \in 1..Len(plan[r]["subtasks"]) |-> plan[r]["subtasks"][k].d]

DependencySet(subtask) ==
    {subtask["dependencies"][m] : m \in 1..Len(subtask["dependencies"])}

\* clamp(complexity, 1, 10) of an integer complexity, 1 when it is missing
Clamp(evaluation) ==
    LET complexity == IF HasKey(evaluation, "complexity")
                      THEN evaluation["complexity"].n ELSE 1
    IN  IF complexity < 1 THEN 1 ELSE IF complexity > 10 THEN 10 ELSE complexity

\* C13: create_plan produces clamp(complexity, 1, 10) subtasks and the
\* subtask at position i, counted from 0, depends on all of 0 .. i-1, its
\* immediate predecessor included.
C13_LinearChain ==
    \A r \in Runs :
        Planned(r) =>
            /\ Len(SubtasksOf(r)) = Clamp(probe)
            /\ \A k \in 1..Len(SubtasksOf(r)) :
                   DependencySet(SubtasksOf(r)[k]) = 0..(k - 2)

\* C14: in every plan create_plan produces, each dependency of a subtask
\* names a subtask of the plan that stands strictly earlier in the list,
\* read as a subtask id or as a list position; hence no subtask depends on
\* itself and the dependencies form no cycle.
C14_DependenciesPointBack ==
    \A r \in Runs :
        Planned(r) =>
            \A k \in 1..Len(SubtasksOf(r)) :
                \A dep \in DependencySet(SubtasksOf(r)[k]) :
                    /\ \E q \in 1..(k - 1) : SubtasksOf(r)[q]["id"] = dep
                    /\ dep \in 0..(k - 2)
                    /\ dep # SubtasksOf(r)[k]["id"]

\* a returned plan of four subtasks whose last one has dependencies
C14_Witness ==
    \E r \in Runs :
        /\ Planned(r)
        /\ pc[r] = "done"
        /\ Len(SubtasksOf(r)) = 4
        /\ DependencySet(SubtasksOf(r)[4]) # {}

\* the id a subtask entry carries, None when it carries none
IdOf(subtask) == IF HasKey(subtask.d, "id") THEN subtask.d["id"] ELSE None

\* C15: execute_plan takes the subtasks of the plan one at a time in list
\* order: while a subtask is dispatched the results of exactly the subtasks
\* before it are appended, and the finished result holds one subtask result
\* per subtask, in plan order, each with its subtask's id.
C15_SubtasksInOrder ==
    \A r \in Runs :
        (DirectExecution(r) /\ ExecutionStarted(r)) =>
            LET subtasks == PlanSubtasks(plan[r])
                done == results[r]["subtask_results"]
            IN  /\ Len(done) <= Len(subtasks)
                /\ \A k \in 1..Len(done) : done[k]["subtask_id"] = IdOf(subtasks[k])
                /\ pc[r] = "execute_dispatch" =>
                       /\ Len(done) < Len(subtasks)
                       /\ dispatch[r]["task"]["subtask"] = subtasks[Len(done) + 1].d
                /\ pc[r] = "done" => Len(done) = Len(subtasks)

\* a plan of two subtasks was executed; the results carry the ids 1 and 2
C15_Witness ==
    \E r \in Runs :
        /\ DirectExecution(r)
        /\ pc[r] = "done"
        /\ Len(results[r]["subtask_results"]) = 2
        /\ \A k \in 1..2 : HasKey(PlanSubtasks(plan[r])[k].d, "id")
        /\ results[r]["subtask_results"][1]["subtask_id"] = 1
        /\ results[r]["subtask_results"][2]["subtask_id"] = 2

SubtaskResultsOf(execution_result) ==
    IF HasKey(execution_result, "subtask_results")
    THEN execution_result["subtask_results"] ELSE <<>>

\* the success rate of a subtask result is strictly above 0.8
AboveFourFifths(subtask_result) ==
    /\ HasKey(subtask_result, "success_rate")
    /\ 5 * subtask_result["success_rate"].n > 4 * subtask_result["success_rate"].d

HasOutcome(subtask_result) ==
    /\ HasKey(subtask_result, "sub_agent_results")
    /\ Len(subtask_result["sub_agent_results"]) >= 1

Summarised(r) == entry[r] = "generate_execution_summary"

\* C16: the summary counts a subtask as successful only when its success
\* rate is strictly above 0.8, so a rate of 0.6 or of 0.8 is not counted;
\* success_rate is successful / total and 0 without subtasks;
\* resources_utilized counts the subtasks with at least one sub-agent
\* outcome; successful never exceeds total.
C16_SummaryThreshold ==
    \A r \in Runs :
        Summarised(r) =>
            LET subtask_results == SubtaskResultsOf(probe)
                total == Len(subtask_results)
                successful ==
                    Cardinality({k \in 1..total : AboveFourFifths(subtask_results[k])})
                summary == outcome[r]
            IN  /\ summary["total_subtasks"] = total
                /\ summary["successful_subtasks"] = successful
                /\ summary["successful_subtasks"] <= summary["total_subtasks"]
                /\ summary["success_rate"].n * (IF total = 0 THEN 1 ELSE total)
                       = successful * summary["success_rate"].d
                /\ summary["resources_utilized"] =
                       Cardinality({k \in 1..total : HasOutcome(subtask_results[k])})

\* one subtask at 0.6 and one at 0.9 were summarised as one successful of two
C16_Witness ==
    /\ Len(SubtaskResultsOf(probe)) = 2
    /\ \E k \in 1..2 :
           /\ HasKey(SubtaskResultsOf(probe)[k], "success_rate")
           /\ SubtaskResultsOf(probe)[k]["success_rate"] = PyFloat(3, 5)
    /\ \E k \in 1..2 : AboveFourFifths(SubtaskResultsOf(probe)[k])
    /\ \E r \in Runs :
           /\ Summarised(r)
           /\ outcome[r]["successful_subtasks"] = 1
           /\ outcome[r]["success_rate"] = PyFloat(1, 2)

Accessor == last_call.op \in {"get_status", "get_performance_metrics"}

\* C17: get_status and get_performance_metrics of each coordinator leave
\* the histories, the rates, the plans and executions counted, the
\* sub-agent histories and the message queues as they were, and a call
\* that directly follows the same call on the same coordinator returns the
\* same values (timestamps apart).
C17_AccessorsPure ==
    Accessor =>
        /\ bot_vars = last_call.before
        /\ (/\ last_call.previous.op = last_call.op
            /\ last_call.previous.bot = last_call.bot) =>
               last_call.returned = last_call.previous.returned

\* the executor's metrics were read twice in a row after a completed run
C17_Witness ==
    /\ last_call.op = "get_performance_metrics"
    /\ last_call.bot = "execution_bot"
    /\ last_call.previous.op = "get_performance_metrics"
    /\ last_call.previous.bot = "execution_bot"
    /\ last_call.returned["tasks_completed"] >= 1
    /\ last_call.returned["success_rate"] = PyFloat(1, 1)

AllRunsFinished == \A r \in Runs : pc[r] \in {"idle", "done"}

RunCompleted(r) ==
    /\ entry[r] = "process_task"
    /\ pc[r] = "done"
    /\ exception[r] = "none"

\* the positions of the history of b that hold the execution result of run r
PlacesOf(b, r) == {k \in 1..Len(learning_data[b]) : learning_data[b][k] = results[r]}

\* C18: with several pipeline runs in flight at once on the three
\* coordinators no learning update is lost: once every run has finished,
\* each history holds the record of each completed run once and nothing
\* else, and recent_success_rate is the rate of the update applied last.
C18_NoLostUpdate ==
    AllRunsFinished =>
        \A b \in Bots :
            /\ \A r \in Runs : RunCompleted(r) => Cardinality(PlacesOf(b, r)) = 1
            /\ Len(learning_data[b]) = Cardinality({r \in Runs : RunCompleted(r)})
            /\ learning_data[b] # <<>> =>
                   RateOf(b) = PyFloat(Successes(<<learning_data[b][Len(learning_data[b])]>>), 1)

\* two runs were in flight together: both completed, and the run scheduled
\* second overtook the first and reached the histories before it
C18_Witness ==
    /\ AllRunsFinished
    /\ RunCompleted(1)
    /\ RunCompleted(2)
    /\ \A b \in Bots : learning_data[b] = <<results[2], results[1]>>

\* the outcome lists the stages of run r have stored, each with the
\* coordinator whose sub-agents it was dispatched to
StageResults(r) ==
    (IF HasKey(ceo_evaluation[r], "sub_agent_insights")
     THEN {[bot |-> "ceo_bot", stage |-> <<"evaluate">>,
            outcomes |-> ceo_evaluation[r]["sub_agent_insights"]]}
     ELSE {})
    \cup (IF HasKey(plan[r], "sub_agent_contributions")
          THEN {[bot |-> "planner_bot", stage |-> <<"plan">>,
                 outcomes |-> plan[r]["sub_agent_contributions"]]}
          ELSE {})
    \cup (IF HasKey(results[r], "subtask_results")
          THEN {[bot |-> "execution_bot", stage |-> <<"execute", k>>,
                 outcomes |-> results[r]["subtask_results"][k]["sub_agent_results"]] :
                   k \in 1..Len(results[r]["subtask_results"])}
          ELSE {})

\* the result of the stage run r is dispatching for does not exist yet
NotYetProduced(r) ==
    /\ pc[r] = "evaluate_dispatch" => ~HasKey(ceo_evaluation[r], "sub_agent_insights")
    /\ pc[r] = "plan_dispatch" => ~HasKey(plan[r], "sub_agent_contributions")
    /\ pc[r] = "execute_dispatch" =>
           Len(results[r]["subtask_results"]) < Len(PlanSubtasks(plan[r]))

\* C19: a stage stores its result only when every sub-agent dispatched for
\* it has returned: the stored list holds one outcome from each of the
\* three sub-agents the dispatch went to, in their order, and no outcome
\* appears in two stage results, of the same run or of another.
C19_FanIn ==
    /\ \A r \in Runs :
           /\ entry[r] = "process_task" => NotYetProduced(r)
           /\ \A s \in StageResults(r) :
                  /\ Len(s.outcomes) = DefaultAllocation
                  /\ \A j \in 1..Len(s.outcomes) :
                         s.outcomes[j]["sub_agent"] = <<s.bot, j - 1>>
    /\ \A r, q \in Runs :
           \A s \in StageResults(r), t \in StageResults(q) :
               (r # q \/ s.stage # t.stage) =>
                   \A j \in 1..Len(s.outcomes), k \in 1..Len(t.outcomes) :
                       s.outcomes[j] # t.outcomes[k]

\* two interleaved runs: the second run's evaluation got the first call of
\* the CEO's sub-agent 1, the first run's evaluation got the second
C19_Witness ==
    /\ RunCompleted(1)
    /\ RunCompleted(2)
    /\ ceo_evaluation[2]["sub_agent_insights"][2]["task_id"] = <<"uuid", "ceo_bot", 1, 1>>
    /\ ceo_evaluation[1]["sub_agent_insights"][2]["task_id"] = <<"uuid", "ceo_bot", 1, 2>>

\* the steps that are no learn_from_results call and build no coordinator
NoLearningStep ==
    last_call'.op \in {"process_task", "evaluate_task", "evaluate_task_return",
                       "create_plan", "create_plan_return", "execute_plan",
                       "execute_subtask", "execute_subtask_return",
                       "execute_plan_return", "perform_task", "record_completed",
                       "handle_exception", "get_status", "get_performance_metrics"}

C20_Step ==
    /\ NoLearningStep => UNCHANGED <<learning_data, performance_metrics>>
    /\ last_call'.op = "learn_from_results" =>
           /\ \A b \in Bots \ {last_call'.bot} :
                  /\ learning_data'[b] = learning_data[b]
                  /\ performance_metrics'[b] = performance_metrics[b]
           /\ last_call'.by \in Runs => exception[last_call'.by] = "none"
    /\ \A r \in Runs :
           (pc[r] = "except" /\ pc'[r] = "done") =>
               \A b \in Bots : \A k \in 1..Len(learning_data'[b]) :
                   learning_data'[b][k] # results[r]

\* C20: the history and recent_success_rate of a coordinator change only in
\* a learn_from_results call on that coordinator: evaluating, planning,
\* executing, the sub-agents, the accessors and a run that ends in the
\* except branch leave those of all three coordinators as they were, and a
\* learn_from_results call changes those of its own coordinator alone.
C20_LearningFrame == [][C20_Step]_vars

\* after a run that failed, the next run is learning: the planner has just
\* learned, the CEO before it, the executor not yet
C20_Witness ==
    /\ last_call.op = "learn_from_results"
    /\ last_call.bot = "planner_bot"
    /\ last_call.by = 2
    /\ exception[1] # "none"
    /\ Len(learning_data["ceo_bot"]) = 1
    /\ Len(learning_data["planner_bot"]) = 1
    /\ learning_data["execution_bot"] = <<>>

\* the stages of run r that come after the evaluation was returned
AfterEvaluate(r) ==
    pc[r] \in {"plan", "plan_dispatch", "execute", "execute_loop", "execute_dispatch",
               "learn_ceo_bot", "learn_planner_bot", "learn_execution_bot", "record",
               "except", "done"}

\* the stages of run r that come after the plan was returned
AfterPlan(r) ==
    pc[r] \in {"execute", "execute_loop", "execute_dispatch", "learn_ceo_bot",
               "learn_planner_bot", "learn_execution_bot", "record", "except", "done"}

\* the back-references of the objects run r has built so far
C21_State ==
    \A r \in Runs :
        PipelineRun(r) =>
            /\ ceo_evaluation[r] # EmptyDict =>
                   ceo_evaluation[r]["task_id"] = task_data[r]["id"]
            /\ plan[r] # EmptyDict =>
                   /\ plan[r]["based_on_evaluation"] = ceo_evaluation[r]["task_id"]
                   /\ plan[r]["priority"] = ceo_evaluation[r]["priority"]
            /\ results[r] # EmptyDict => results[r]["plan_id"] = plan[r]["plan_id"]

\* what a step leaves alone
C21_Step ==
    \A r \in Runs :
        PipelineRun(r) =>
            /\ task_data'[r] = task_data[r]
            /\ AfterEvaluate(r) => ceo_evaluation'[r] = ceo_evaluation[r]
            /\ AfterPlan(r) => plan'[r] = plan[r]
            /\ pc'[r] = "done" /\ exception[r] = "none" /\ pc[r] = "record" =>
                   LET record == tasks'[Len(tasks')]
                   IN  /\ record["evaluation"] = ceo_evaluation[r]
                       /\ record["plan"] = plan[r]
                       /\ record["results"] = results[r]

\* C21: task, evaluation, plan and execution result form a forward-only
\* chain: no step of a run changes the task, no step after evaluate_task
\* returned changes the evaluation, no step after create_plan returned
\* changes the plan, and evaluation.task_id = task.id,
\* plan.based_on_evaluation = evaluation.task_id, plan.priority =
\* evaluation.priority and execution_result.plan_id = plan.plan_id.
C21_ForwardChain == [][C21_State /\ C21_State' /\ C21_Step]_vars

\* a completed run with the four objects linked; the priority the plan
\* carries is the evaluation's critical
C21_Witness ==
    \E r \in Runs :
        /\ PipelineRun(r)
        /\ pc[r] = "done"
        /\ exception[r] = "none"
        /\ ceo_evaluation[r]["priority"] = "critical"
        /\ plan[r]["priority"] = "critical"
        /\ results[r]["plan_id"] = plan[r]["plan_id"]
        /\ ceo_evaluation[r]["task_id"] = task_data[r]["id"]

\* a limit below the number of calls the runs of the model can make on one
\* sub-agent
HistoryLimit == MaxRuns - 1

\* C22: the task_history of a sub-agent is bounded: its length never
\* exceeds a fixed limit, however often the sub-agent is called.
C22_HistoryBounded ==
    \A b \in Bots, i \in SubAgentIndexes : Len(task_history[b][i]) <= HistoryLimit

\* C23: a pipeline run on a task of integer complexity c completes with a
\* plan of clamp(c, 1, 10) subtasks and an execution result of status
\* completed holding as many subtask results; the automated task
\* (complexity 3, urgency 2, impact 4) is evaluated as critical and gets 3.
C23_EndToEnd ==
    \A r \in Runs :
        (PipelineRun(r) /\ pc[r] = "done") =>
            LET numeric == ~EvaluateRaises(task_data[r])
                integer == numeric /\ NumericField(task_data[r], "complexity").type = "int"
            IN  /\ integer =>
                       /\ exception[r] = "none"
                       /\ Len(plan[r]["subtasks"]) = Clamp(task_data[r])
                       /\ results[r]["status"] = "completed"
                       /\ Len(results[r]["subtask_results"]) = Clamp(task_data[r])
                       /\ outcome[r] = results[r]
                /\ (/\ HasKey(task_data[r], "complexity")
                    /\ task_data[r]["complexity"] = PyInt(3)
                    /\ HasKey(task_data[r], "urgency")
                    /\ task_data[r]["urgency"] = PyInt(2)
                    /\ HasKey(task_data[r], "impact")
                    /\ task_data[r]["impact"] = PyInt(4)) =>
                       /\ ceo_evaluation[r]["priority"] = "critical"
                       /\ Len(results[r]["subtask_results"]) = 3

\* the automated task went through: critical, three subtasks, three results
C23_Witness ==
    \E r \in Runs :
        /\ PipelineRun(r)
        /\ pc[r] = "done"
        /\ HasKey(task_data[r], "impact")
        /\ task_data[r]["impact"] = PyInt(4)
        /\ ceo_evaluation[r]["priority"] = "critical"
        /\ Len(plan[r]["subtasks"]) = 3
        /\ results[r]["status"] = "completed"
        /\ Len(results[r]["subtask_results"]) = 3

HasRate(b) == HasKey(performance_metrics[b], "recent_success_rate")

\* C24: whatever lists learn_from_results is called with, a
\* recent_success_rate that has been set is a number from 0 to 1.
C24_RateInUnitInterval ==
    \A b \in Bots :
        HasRate(b) =>
            /\ IsNumber(RateOf(b))
            /\ RateOf(b).d > 0
            /\ 0 <= RateOf(b).n
            /\ RateOf(b).n <= RateOf(b).d

\* after more than one call a coordinator holds three records and the rate
\* one half
C24_Witness ==
    \E b \in Bots :
        /\ HasRate(b)
        /\ RateOf(b) = PyFloat(1, 2)
        /\ Len(learning_data[b]) = 3
        /\ DirectLearn
        /\ last_call.before.learning_data # <<>>

\* C25: in a pipeline run every dispatch of the CEO, the planner and the
\* executor has width 3 whatever allocated_sub_agents the task carries,
\* because no payload carries it; so only sub-agents 0, 1, 2 of each
\* coordinator ever have a history and sub-agents 3 to 9 are never called.
C25_PipelineWidthThree ==
    /\ \A r \in Runs :
           (PipelineRun(r) /\ dispatch[r] # EmptyDict) =>
               /\ dispatch[r]["subtasks"] = 3
               /\ dispatch[r]["i"] <= 3
               /\ ~HasKey(dispatch[r]["task"], "allocated_sub_agents")
    /\ \A r \in Runs : \A s \in StageResults(r) : Len(s.outcomes) = 3
    /\ \A b \in Bots : \A i \in SubAgentIndexes : i >= 3 => task_history[b][i] = <<>>

\* a task that asked for 7 sub-agents completed: each of its dispatches
\* returned 3 outcomes and the executor's sub-agent 3 was never called
C25_Witness ==
    \E r \in Runs :
        /\ RunCompleted(r)
        /\ HasKey(task_data[r], "allocated_sub_agents")
        /\ task_data[r]["allocated_sub_agents"] = 7
        /\ Len(ceo_evaluation[r]["sub_agent_insights"]) = 3
        /\ Len(results[r]["subtask_results"][1]["sub_agent_results"]) = 3
        /\ task_history["execution_bot"][2] # <<>>
        /\ task_history["execution_bot"][3] = <<>>

\* run r has made its three learn_from_results calls and nothing has
\* happened since, or it has just stored its record
JustLearned(r) ==
    \/ pc[r] = "record"
    \/ last_call.op = "record_completed" /\ last_call.run = r

\* C26: when a pipeline run has completed, recent_success_rate of the
\* three coordinators is 1: the one record they learned from is the
\* execution result, whose status is 'completed', whatever its subtask
\* rates and its summary say.
C26_RateOneAfterRun ==
    \A r \in Runs :
        (PipelineRun(r) /\ JustLearned(r)) =>
            \A b \in Bots :
                /\ HasRate(b)
                /\ RateOf(b) = PyFloat(1, 1)
                /\ learning_data[b][Len(learning_data[b])] = results[r]
                /\ results[r]["status"] = "completed"

\* a second run completed after a first: the three rates are 1 and each
\* history ends with the second execution result
C26_Witness ==
    /\ last_call.op = "record_completed"
    /\ last_call.run = 2
    /\ RunCompleted(1)
    /\ \A b \in Bots : HasRate(b) /\ RateOf(b) = PyFloat(1, 1)
    /\ \A b \in Bots : Len(learning_data[b]) = 2

NothingAccepted == DirectLearn /\ last_call.results # <<>> /\ Accepted(last_call.results) = <<>>

\* C27: learn_from_results on a non-empty list none of whose entries is a
\* dict or has a __dict__ leaves the history and recent_success_rate as
\* they were: no reset to 0, no division by zero.
C27_NothingAcceptedNoChange ==
    NothingAccepted =>
        /\ learning_data[last_call.bot] = last_call.before.learning_data
        /\ performance_metrics[last_call.bot] = last_call.before.performance_metrics

\* a coordinator with a rate of 1 was handed two entries that are no
\* records and kept 1
C27_Witness ==
    /\ NothingAccepted
    /\ Len(last_call.results) = 2
    /\ HasRate(last_call.bot)
    /\ RateOf(last_call.bot) = PyFloat(1, 1)
    /\ last_call.before.learning_data # <<>>

\* C28: between the runs, after any sequence of pipeline runs, "Optimize
\* Strategies" and "Restart Bot System", the three coordinators hold the
\* same history, record for record, and the same recent_success_rate.
C28_CoordinatorsAgree ==
    NoneInFlight =>
        \A b \in Bots :
            /\ learning_data[b] = learning_data["ceo_bot"]
            /\ performance_metrics[b] = performance_metrics["ceo_bot"]

\* a run completed, then "Optimize Strategies": three equal histories of
\* one record and three rates of 0
C28_Witness ==
    /\ NoneInFlight
    /\ last_call.op = "optimize_strategies"
    /\ \A b \in Bots :
           /\ Len(learning_data[b]) = 1
           /\ IsZeroRate(performance_metrics[b])

====
